---------------------------- MODULE Spec2Model ----------------------------
(***************************************************************************)
(* Verification model of the MemeGenerator repository:                     *)
(*   MemeEngine/MemeGenerator.py  (image resize, text layout, saving)      *)
(*   QuoteEngine/TextIngestor.py  (dispatch by extension, four ingestors)  *)
(*   main.py                      (command-line entry point)               *)
(*   app.py                       (Flask handlers sharing one generator)   *)
(*                                                                         *)
(* Strings are sequences of one-character (or atomic-token) strings.       *)
(* Each subsystem has its own variables and its own specification; the     *)
(* variables of the other subsystems stay at their idle values.            *)
(***************************************************************************)
EXTENDS Integers, Sequences, FiniteSets, TLC

VARIABLES
  \* ---- make_meme layout (MemeGenerator.py 109-137)
  lpc, width, orig, img_width, img_height, text_width, author_width, x, y,
  \* ---- Ingestor.parse dispatch (TextIngestor.py 216-238)
  dpc, dpath, dinvoked, dout,
  \* ---- one call of an ingestor's parse or of make_meme, with its failures
  call, cpc, cpath, nlines, quotes, failures, outcome,
  output_dir, dirs, files, tmp_path, retpath,
  \* ---- generate_meme (main.py 6-45)
  gpc, gpath, gbody, gauthor, gimg, gquote, gpicked, gout,
  \* ---- the web handlers (app.py) sharing the module-level generator `meme`
  kind, form, pc, resp, fetched, status, valid, tmp, arg, local,
  image, heap, tmpfiles, static

layoutVars == <<lpc, width, orig, img_width, img_height, text_width, author_width, x, y>>
dispatchVars == <<dpc, dpath, dinvoked, dout>>
callVars == <<call, cpc, cpath, nlines, quotes, failures, outcome,
              output_dir, dirs, files, tmp_path, retpath>>

cliVars == <<gpc, gpath, gbody, gauthor, gimg, gquote, gpicked, gout>>

webVars == <<kind, form, pc, resp, fetched, status, valid, tmp, arg, local,
             image, heap, tmpfiles, static>>

vars == <<layoutVars, dispatchVars, callVars, cliVars, webVars>>

Max(a, b) == IF a >= b THEN a ELSE b

(***************************************************************************)
(* MemeGenerator.make_meme: resize and text placement                      *)
(***************************************************************************)
\* self.font_size = 30 (prepare_fonts)
font_size == 30
\* int(self.font_size * 0.8)
author_font_size == (font_size * 8) \div 10
\* margin = 10
margin == 10
\* the default and the upper limit of the resize width
DefaultWidth == 500

\* width arguments given to make_meme / load_and_resize_image
WidthArgs == {0, 200, 500, 501}
\* original (width, height) of the opened image, as an aspect ratio
OrigSizes == {<<4, 1>>, <<10, 1>>, <<5, 2>>}
\* right edges that textbbox((0, 0), ...) measures for the quote and "- author"
TextWidths == {120, 380, 495, 600}

\* if width > 500 or width < 1: width = 500
ClampWidth(w) == IF w > DefaultWidth \/ w < 1 THEN DefaultWidth ELSE w

\* new_height = int(width * (original_height / original_width))
NewHeight(w, o) == (w * o[2]) \div o[1]

\* max_x = max(margin, img_width - max_text_width)
max_x(iw, tw, aw) == Max(margin, iw - Max(tw, aw))
\* max_y = max(margin + self.font_size, img_height - 2 * self.font_size)
max_y(ih) == Max(margin + font_size, ih - 2 * font_size)

\* x = random.randint(margin, max_x) if max_x > margin else margin
XChoices(iw, tw, aw) ==
  IF max_x(iw, tw, aw) > margin THEN margin .. max_x(iw, tw, aw) ELSE {margin}
\* y = random.randint(margin + font_size, max_y) if max_y > margin + font_size
YChoices(ih) ==
  IF max_y(ih) > margin + font_size THEN (margin + font_size) .. max_y(ih)
  ELSE {margin + font_size}

LayoutInit ==
  /\ lpc = "load"
  /\ width \in WidthArgs
  /\ orig \in OrigSizes
  /\ img_width = 0 /\ img_height = 0
  /\ text_width = 0 /\ author_width = 0
  /\ x = 0 /\ y = 0

LayoutIdle ==
  /\ lpc = "idle" /\ width = 0 /\ orig = <<1, 1>>
  /\ img_width = 0 /\ img_height = 0
  /\ text_width = 0 /\ author_width = 0 /\ x = 0 /\ y = 0

\* self.load_and_resize_image(img_path, width); img_width, img_height = self.image.size
LoadAndResize ==
  /\ lpc = "load"
  /\ img_width' = ClampWidth(width)
  /\ img_height' = NewHeight(ClampWidth(width), orig)
  /\ lpc' = "measure"
  /\ UNCHANGED <<width, orig, text_width, author_width, x, y>>
  /\ UNCHANGED <<dispatchVars, callVars, cliVars, webVars>>

\* the two drawing.textbbox calls
Measure ==
  /\ lpc = "measure"
  /\ text_width' \in TextWidths
  /\ author_width' \in TextWidths
  /\ lpc' = "place"
  /\ UNCHANGED <<width, orig, img_width, img_height, x, y>>
  /\ UNCHANGED <<dispatchVars, callVars, cliVars, webVars>>

\* the two random placements
Place ==
  /\ lpc = "place"
  /\ x' \in XChoices(img_width, text_width, author_width)
  /\ y' \in YChoices(img_height)
  /\ lpc' = "draw"
  /\ UNCHANGED <<width, orig, img_width, img_height, text_width, author_width>>
  /\ UNCHANGED <<dispatchVars, callVars, cliVars, webVars>>

\* the two drawing.text calls at (x, y) anchor 'lb' and (x, y + 5) anchor 'lt'
DrawText ==
  /\ lpc = "draw"
  /\ lpc' = "drawn"
  /\ UNCHANGED <<width, orig, img_width, img_height, text_width, author_width, x, y>>
  /\ UNCHANGED <<dispatchVars, callVars, cliVars, webVars>>

LayoutNext == LoadAndResize \/ Measure \/ Place \/ DrawText

(***************************************************************************)
(* Strings                                                                 *)
(***************************************************************************)
\* i-th and later occurrences aside, the index of the first sep in s (0: none)
FirstIndex(s, sep) ==
  IF \E i \in 1..Len(s) : s[i] = sep
  THEN CHOOSE i \in 1..Len(s) : s[i] = sep /\ \A j \in 1..(i - 1) : s[j] # sep
  ELSE 0

\* str.split(sep): the pieces between the separators, at least one piece
RECURSIVE Split(_, _)
Split(s, sep) ==
  IF FirstIndex(s, sep) = 0 THEN <<s>>
  ELSE <<SubSeq(s, 1, FirstIndex(s, sep) - 1)>>
         \o Split(SubSeq(s, FirstIndex(s, sep) + 1, Len(s)), sep)

\* every sequence over S of length 0..n
SeqsUpTo(S, n) == UNION {[1..k -> S] : k \in 0..n}

\* the characters of the regex character class unwanted_chars (the double
\* quote, the backquote and the non-ASCII members are left out: no input has them)
unwanted_chars ==
  {"(", ")", "#", "<", ">", "{", "}", "+", "=", "~", "|", ".",
   "!", "?", "/", "@", ";", ","}
\* characters for which str.isprintable() is False
NonPrintable == {"\n", "\t", "\r"}
\* characters str.strip() removes
Whitespace == {" ", "\n", "\t", "\r"}

\* s without the characters of bad
RECURSIVE Remove(_, _)
Remove(s, bad) ==
  IF s = <<>> THEN <<>>
  ELSE (IF Head(s) \in bad THEN <<>> ELSE <<Head(s)>>) \o Remove(Tail(s), bad)

\* str.strip()
RECURSIVE LStrip(_)
LStrip(s) == IF s # <<>> /\ Head(s) \in Whitespace THEN LStrip(Tail(s)) ELSE s
RECURSIVE RStrip(_)
RStrip(s) ==
  IF s # <<>> /\ s[Len(s)] \in Whitespace THEN RStrip(SubSeq(s, 1, Len(s) - 1)) ELSE s
Strip(s) == RStrip(LStrip(s))

\* IngestorInterface.clean_data
clean_data(text) == Strip(Remove(Remove(text, unwanted_chars), NonPrintable))

(***************************************************************************)
(* IngestorInterface.can_ingest / input_extension and Ingestor.parse       *)
(***************************************************************************)
FormatIngestors == {"IngestorCSV", "IngestorDOCX", "IngestorTXT", "IngestorPDF"}

allowed_extensions(cls) ==
  CASE cls = "IngestorCSV" -> {<<"csv">>}
    [] cls = "IngestorDOCX" -> {<<"docx">>}
    [] cls = "IngestorTXT" -> {<<"txt">>}
    [] cls = "IngestorPDF" -> {<<"pdf">>}
    [] OTHER -> {}

\* path.split('.')[-1]
input_extension(path) == Split(path, ".")[Len(Split(path, "."))]

can_ingest(cls, path) == input_extension(path) \in allowed_extensions(cls)

\* the if/elif chain of Ingestor.parse; "none" is the else branch
SelectIngestor(path) ==
  CASE input_extension(path) = <<"csv">> -> "IngestorCSV"
    [] input_extension(path) = <<"docx">> -> "IngestorDOCX"
    [] input_extension(path) = <<"txt">> -> "IngestorTXT"
    [] input_extension(path) = <<"pdf">> -> "IngestorPDF"
    [] OTHER -> "none"

\* path tokens: the four extensions, another word, and the separators
PathTokens == {"csv", "docx", "txt", "pdf", "x", ".", "/"}
MaxPathLen == 3
Paths == SeqsUpTo(PathTokens, MaxPathLen)

DispatchInit ==
  /\ dpc = "call" /\ dpath \in Paths /\ dinvoked = {} /\ dout = "none"

DispatchIdle ==
  /\ dpc = "idle" /\ dpath = <<>> /\ dinvoked = {} /\ dout = "none"

\* Ingestor.parse up to `return ingestor.parse(path)`
IngestorParse ==
  /\ dpc = "call"
  /\ IF SelectIngestor(dpath) = "none"
     THEN /\ dout' = "No suitable ingestor found"
          /\ dpc' = "done"
          /\ dinvoked' = dinvoked
     ELSE /\ dinvoked' = dinvoked \cup {SelectIngestor(dpath)}
          /\ dpc' = "ingestor"
          /\ dout' = dout
  /\ UNCHANGED <<dpath, layoutVars, callVars, cliVars, webVars>>

\* the selected ingestor's parse: its can_ingest guard
IngestorGuard ==
  /\ dpc = "ingestor"
  /\ \E cls \in dinvoked :
       dout' = IF can_ingest(cls, dpath) THEN "ingesting" ELSE "File not supported"
  /\ dpc' = "done"
  /\ UNCHANGED <<dpath, dinvoked, layoutVars, callVars, cliVars, webVars>>

DispatchNext == IngestorParse \/ IngestorGuard

(***************************************************************************)
(* The four format ingestors                                               *)
(***************************************************************************)
\* QuoteModel.__init__
QuoteModel(q, a) == [quote |-> q, author |-> a]

\* characters of the input documents: an ordinary one, an unwanted one, a
\* blank, the quote/author separator and a line end
LineChars == {"a", "!", " ", "-", "\n"}
MaxLineLen == 3
MaxLines == 2
\* readlines() lines and paragraph texts
Lines == SeqsUpTo(LineChars, MaxLineLen)
\* text.split("\n") pieces hold no line end
PdfLines == SeqsUpTo(LineChars \ {"\n"}, MaxLineLen)
\* the body and author cells pandas.read_csv hands over, as read
CsvFields == {<<"a">>, <<"a", "!">>, <<" ", "a">>}

\* IngestorTXT.parse, the body of `for line in lines`
TxtRecords(line) ==
  IF clean_data(line) # <<>> /\ Len(Split(line, "-")) > 1
  THEN <<QuoteModel(clean_data(Split(line, "-")[1]), clean_data(Split(line, "-")[2]))>>
  ELSE <<>>

\* IngestorDOCX.parse, the body of `for paragraph in doc.paragraphs`
DocxRecords(text) ==
  IF text # <<>> /\ Len(Split(text, "-")) = 2
  THEN <<QuoteModel(clean_data(Split(text, "-")[1]), clean_data(Split(text, "-")[2]))>>
  ELSE <<>>

\* IngestorCSV.parse, the lambda applied to one row
CsvRecords(body, author) == <<QuoteModel(body, author)>>

\* IngestorPDF.parse: elements = line.strip().split("-")
PdfElements(line) == Split(Strip(line), "-")
\* elements[1] raises IndexError when the line holds no "-"
PdfLineFails(line) == Len(PdfElements(line)) < 2
PdfRecords(line) ==
  <<QuoteModel(clean_data(PdfElements(line)[1]), clean_data(PdfElements(line)[2]))>>

\* `except Exception as e: continue` inside the loop of IngestorPDF.parse
PdfLineHandler == "continue"
\* `except Exception as error: raise ValueError(...)` of IngestorPDF.parse
PdfParseHandler == "raised"

(***************************************************************************)
(* MemeGenerator.make_meme: saving, and its exception handlers             *)
(***************************************************************************)
\* a handler that prints and returns instead of raising again
SwallowingHandler == "returned"
\* `except Exception as e: print(...); raise` of make_meme
MakeMemeHandler == "raised"
\* the two handlers of load_and_resize_image and that of prepare_fonts
LoadHandler == "raised"
FontHandler == "raised"

\* a path string: absolute or not, and its components
RawPath(a, parts) == [abs |-> a, parts |-> parts]
\* pathlib.Path(s): "." components are dropped
PathOf(raw) == [abs |-> raw.abs, parts |-> Remove(raw.parts, {"."})]
\* Path.name: the last component, '' when there is none
PathName(p) == IF p.parts = <<>> THEN "" ELSE p.parts[Len(p.parts)]
\* str(Path): a relative path without components is "."
StrPath(p) ==
  [abs |-> p.abs, parts |-> IF p.parts = <<>> /\ ~p.abs THEN <<".">> ELSE p.parts]
\* the working directory of the process
cwd == <<"cwd">>
\* where the file system finds a path: relative paths start at cwd
Locate(raw) == IF raw.abs THEN PathOf(raw).parts ELSE cwd \o PathOf(raw).parts
\* mkdir(parents=True, exist_ok=True): the directory and all its parents
WithParents(loc) == {SubSeq(loc, 1, k) : k \in 0..Len(loc)}
\* NamedTemporaryFile(dir=output_folder.name, ...): the directory it is made in
TempDir(p) == Locate(RawPath(FALSE, IF PathName(p) = "" THEN <<>> ELSE <<PathName(p)>>))
\* str(output_folder) + "/" + Path(output_path_complete).name
ReturnedPath(p, fname) == RawPath(p.abs, StrPath(p).parts \o <<fname>>)

\* output_dir arguments: './static', 'static', './tmp', '.', 'a/b', 'b/b', '/srv/out'
OutputDirs ==
  {RawPath(FALSE, <<".", "static">>), RawPath(FALSE, <<"static">>),
   RawPath(FALSE, <<".", "tmp">>), RawPath(FALSE, <<".">>),
   RawPath(FALSE, <<"a", "b">>), RawPath(FALSE, <<"b", "b">>),
   RawPath(TRUE, <<"srv", "out">>)}
\* directories that may exist under cwd before the call
PreExisting == {cwd \o <<"static">>, cwd \o <<"b">>, cwd \o <<"out">>}
\* the random part of the temporary file's name
TmpNames == {"meme_1.jpg", "meme_2.jpg"}

NoPath == RawPath(FALSE, <<>>)

CallPaths == {<<"x", ".", "txt">>, <<"x", ".", "csv">>, <<"x", ".", "docx">>,
              <<"x", ".", "pdf">>, <<"x">>}

CallInit ==
  /\ call \in FormatIngestors \cup {"make_meme"}
  /\ nlines = 0 /\ quotes = <<>> /\ failures = {} /\ outcome = "running"
  /\ files = {} /\ tmp_path = <<>> /\ retpath = NoPath
  /\ IF call = "make_meme"
     THEN /\ cpc = "mm_load" /\ cpath = <<>>
          /\ output_dir \in OutputDirs
          /\ \E pre \in SUBSET PreExisting : dirs = {<<>>, cwd} \cup pre
     ELSE /\ cpc = "ing_guard" /\ cpath \in CallPaths
          /\ output_dir = NoPath /\ dirs = {<<>>, cwd}

CallIdle ==
  /\ call = "none" /\ cpc = "idle" /\ cpath = <<>> /\ nlines = 0 /\ quotes = <<>>
  /\ failures = {} /\ outcome = "running" /\ output_dir = NoPath
  /\ dirs = {} /\ files = {} /\ tmp_path = <<>> /\ retpath = NoPath

fsVars == <<output_dir, dirs, files, tmp_path, retpath>>
otherOfCall == <<layoutVars, dispatchVars, cliVars, webVars>>

\* `if not cls.can_ingest(path): raise ValueError(...)`, first in every parse
IngGuard ==
  /\ cpc = "ing_guard"
  /\ IF can_ingest(call, cpath)
     THEN cpc' = "ing_read" /\ UNCHANGED <<failures, outcome>>
     ELSE /\ failures' = failures \cup {"unsupported"}
          /\ outcome' = "raised" /\ cpc' = "done"
  /\ UNCHANGED <<call, cpath, nlines, quotes, fsVars, otherOfCall>>

\* open(path) / docx.Document(path) / pd.read_csv(path) / subprocess.run(...)
\* only IngestorPDF wraps it in a try
IngRead ==
  /\ cpc = "ing_read"
  /\ \E ok \in BOOLEAN :
       IF ok THEN cpc' = "ing_loop" /\ UNCHANGED <<failures, outcome>>
       ELSE /\ failures' = failures \cup {"read"}
            /\ IF call = "IngestorPDF"
               THEN cpc' = "pdf_except" /\ outcome' = outcome
               ELSE cpc' = "done" /\ outcome' = "raised"
  /\ UNCHANGED <<call, cpath, nlines, quotes, fsVars, otherOfCall>>

\* one iteration of the loop over lines, paragraphs or rows
IngLine ==
  /\ cpc = "ing_loop" /\ nlines < MaxLines
  /\ nlines' = nlines + 1
  /\ CASE call = "IngestorTXT" ->
            \E line \in Lines :
              quotes' = quotes \o TxtRecords(line) /\ failures' = failures
       [] call = "IngestorDOCX" ->
            \E text \in Lines :
              quotes' = quotes \o DocxRecords(text) /\ failures' = failures
       [] call = "IngestorCSV" ->
            \E body \in CsvFields, author \in CsvFields :
              quotes' = quotes \o CsvRecords(body, author) /\ failures' = failures
       [] call = "IngestorPDF" ->
            \E line \in PdfLines :
              IF PdfLineFails(line)
              THEN /\ failures' = failures \cup {"pdf_line"}
                   /\ quotes' = quotes
              ELSE quotes' = quotes \o PdfRecords(line) /\ failures' = failures
  /\ IF call = "IngestorPDF" /\ failures' # failures /\ PdfLineHandler # "continue"
     THEN cpc' = "pdf_except" /\ outcome' = outcome
     ELSE UNCHANGED <<cpc, outcome>>
  /\ UNCHANGED <<call, cpath, fsVars, otherOfCall>>

\* the end of the loop: return the list
IngReturn ==
  /\ cpc = "ing_loop"
  /\ outcome' = "returned" /\ cpc' = "done"
  /\ UNCHANGED <<call, cpath, nlines, quotes, failures, fsVars, otherOfCall>>

\* the outer handler of IngestorPDF.parse
PdfExcept ==
  /\ cpc = "pdf_except"
  /\ outcome' = PdfParseHandler /\ cpc' = "done"
  /\ UNCHANGED <<call, cpath, nlines, quotes, failures, fsVars, otherOfCall>>

ingVars == <<call, cpath, nlines, quotes>>

\* self.load_and_resize_image(img_path, width)
MemeLoad ==
  /\ cpc = "mm_load"
  /\ \E ok \in BOOLEAN :
       IF ok THEN cpc' = "mm_fonts" /\ failures' = failures
       ELSE cpc' = "load_except" /\ failures' = failures \cup {"load"}
  /\ UNCHANGED <<outcome, ingVars, fsVars, otherOfCall>>

\* except FileNotFoundError / except OSError of load_and_resize_image
LoadExcept ==
  /\ cpc = "load_except"
  /\ cpc' = IF LoadHandler = "raised" THEN "mm_except" ELSE "mm_fonts"
  /\ UNCHANGED <<failures, outcome, ingVars, fsVars, otherOfCall>>

\* self.prepare_fonts(text, author)
MemeFonts ==
  /\ cpc = "mm_fonts"
  /\ \E ok \in BOOLEAN :
       IF ok THEN cpc' = "mm_draw" /\ failures' = failures
       ELSE cpc' = "font_except" /\ failures' = failures \cup {"font"}
  /\ UNCHANGED <<outcome, ingVars, fsVars, otherOfCall>>

\* except Exception of prepare_fonts
FontExcept ==
  /\ cpc = "font_except"
  /\ cpc' = IF FontHandler = "raised" THEN "mm_except" ELSE "mm_draw"
  /\ UNCHANGED <<failures, outcome, ingVars, fsVars, otherOfCall>>

\* ImageDraw.Draw, textbbox and the two text calls
MemeDraw ==
  /\ cpc = "mm_draw"
  /\ \E ok \in BOOLEAN :
       IF ok THEN cpc' = "mm_mkdir" /\ failures' = failures
       ELSE cpc' = "mm_except" /\ failures' = failures \cup {"draw"}
  /\ UNCHANGED <<outcome, ingVars, fsVars, otherOfCall>>

\* output_folder.mkdir(parents=True, exist_ok=True)
MemeMkdir ==
  /\ cpc = "mm_mkdir"
  /\ \E ok \in BOOLEAN :
       IF ok
       THEN /\ dirs' = dirs \cup WithParents(Locate(output_dir))
            /\ cpc' = "mm_temp" /\ failures' = failures
       ELSE /\ cpc' = "mm_except" /\ failures' = failures \cup {"mkdir"}
            /\ dirs' = dirs
  /\ UNCHANGED <<outcome, ingVars, output_dir, files, tmp_path, retpath, otherOfCall>>

\* tempfile.NamedTemporaryFile(dir=output_folder.name, ...).name: the file is
\* made in that directory and deleted again when the object is dropped
MemeTemp ==
  /\ cpc = "mm_temp"
  /\ IF TempDir(PathOf(output_dir)) \in dirs
     THEN /\ \E f \in TmpNames : tmp_path' = TempDir(PathOf(output_dir)) \o <<f>>
          /\ cpc' = "mm_save" /\ failures' = failures
     ELSE /\ cpc' = "mm_except" /\ failures' = failures \cup {"tempfile"}
          /\ tmp_path' = tmp_path
  /\ UNCHANGED <<outcome, ingVars, output_dir, dirs, files, retpath, otherOfCall>>

\* self.image.save(output_path_complete)
MemeSave ==
  /\ cpc = "mm_save"
  /\ \E ok \in BOOLEAN :
       IF ok
       THEN files' = files \cup {tmp_path} /\ cpc' = "mm_return" /\ failures' = failures
       ELSE cpc' = "mm_except" /\ failures' = failures \cup {"save"} /\ files' = files
  /\ UNCHANGED <<outcome, ingVars, output_dir, dirs, tmp_path, retpath, otherOfCall>>

\* return str(output_folder) + "/" + str(Path(output_path_complete).name)
MemeReturn ==
  /\ cpc = "mm_return"
  /\ retpath' = ReturnedPath(PathOf(output_dir), tmp_path[Len(tmp_path)])
  /\ outcome' = "returned" /\ cpc' = "done"
  /\ UNCHANGED <<failures, ingVars, output_dir, dirs, files, tmp_path, otherOfCall>>

\* `except Exception as e: print(...); raise` of make_meme
MemeExcept ==
  /\ cpc = "mm_except"
  /\ outcome' = MakeMemeHandler /\ cpc' = "done"
  /\ UNCHANGED <<failures, ingVars, fsVars, otherOfCall>>

CallNext ==
  \/ IngGuard \/ IngRead \/ IngLine \/ IngReturn \/ PdfExcept
  \/ MemeLoad \/ LoadExcept \/ MemeFonts \/ FontExcept \/ MemeDraw
  \/ MemeMkdir \/ MemeTemp \/ MemeSave \/ MemeReturn \/ MemeExcept

(***************************************************************************)
(* main.generate_meme                                                      *)
(***************************************************************************)
\* an argument that may be None
None == [some |-> FALSE]
Some(v) == [some |-> TRUE, val |-> v]

\* characters of a --path argument
CliChars == {"a", ".", "/"}
MaxCliPathLen == 3
CliPaths == {None} \cup {Some(p) : p \in SeqsUpTo(CliChars, MaxCliPathLen)}
CliBodies == {None, Some(<<"b">>)}
CliAuthors == {None, Some(<<"n">>)}
\* the files os.walk finds under ./_data/photos/dog/ (possibly none)
DogImages == {<<"d", "1">>, <<"d", "2">>}
\* the records the three quote files yield
DogQuotes == {QuoteModel(<<"q">>, <<"w">>)}

\* random.choice(seq): any one element, as a string of length one
Choices(seq) == {<<seq[i]>> : i \in 1..Len(seq)}

CliInit ==
  /\ gpc = "img" /\ gpath \in CliPaths /\ gbody \in CliBodies /\ gauthor \in CliAuthors
  /\ gimg = <<>> /\ gquote = QuoteModel(<<>>, <<>>) /\ gpicked = FALSE /\ gout = "running"

CliIdle ==
  /\ gpc = "idle" /\ gpath = None /\ gbody = None /\ gauthor = None
  /\ gimg = <<>> /\ gquote = QuoteModel(<<>>, <<>>) /\ gpicked = FALSE /\ gout = "running"

otherOfCli == <<layoutVars, dispatchVars, callVars, webVars>>

\* `if path is None: ... img = random.choice(imgs)  else: img = random.choice(path)`
GenImage ==
  /\ gpc = "img"
  /\ IF gpath = None
     THEN \E imgs \in SUBSET DogImages :
            IF imgs = {}
            THEN gout' = "raised" /\ gpc' = "done" /\ UNCHANGED <<gimg, gpicked>>
            ELSE /\ gimg' \in imgs /\ gpicked' = TRUE
                 /\ gpc' = "quote" /\ gout' = gout
     ELSE IF Choices(gpath.val) = {}
          THEN gout' = "raised" /\ gpc' = "done" /\ UNCHANGED <<gimg, gpicked>>
          ELSE /\ gimg' \in Choices(gpath.val)
               /\ gpc' = "quote" /\ UNCHANGED <<gout, gpicked>>
  /\ UNCHANGED <<gpath, gbody, gauthor, gquote, otherOfCli>>

\* `if body is None: ... quote = random.choice(quotes)  else: QuoteModel(body, author)`
GenQuote ==
  /\ gpc = "quote"
  /\ IF gbody = None
     THEN \E qs \in SUBSET DogQuotes :
            IF qs = {}
            THEN gout' = "raised" /\ gpc' = "done" /\ gquote' = gquote
            ELSE gquote' \in qs /\ gpc' = "make" /\ gout' = gout
     ELSE IF gauthor = None
          THEN gout' = "raised" /\ gpc' = "done" /\ gquote' = gquote
          ELSE /\ gquote' = QuoteModel(gbody.val, gauthor.val)
               /\ gpc' = "make" /\ gout' = gout
  /\ UNCHANGED <<gpath, gbody, gauthor, gimg, gpicked, otherOfCli>>

\* meme.make_meme(img, quote.quote, quote.author); return path
GenMake ==
  /\ gpc = "make"
  /\ gout' \in {"returned", "raised"}
  /\ gpc' = "done"
  /\ UNCHANGED <<gpath, gbody, gauthor, gimg, gquote, gpicked, otherOfCli>>

CliNext == GenImage \/ GenQuote \/ GenMake

(***************************************************************************)
(* app.py: meme_rand and meme_post on the shared MemeGenerator             *)
(***************************************************************************)
\* the requests in flight; the server handles them in threads
Requests == {1, 2}

\* request.form.get(name): None when missing, possibly the empty string
FieldValues(v) == {None, Some(""), Some(v)}
Forms ==
  [image_url : FieldValues("u"), body : FieldValues("qp"), author : FieldValues("ap")]
NoForm == [image_url |-> None, body |-> None, author |-> None]

\* Python's `not v` for an optional string
Falsy(v) == v = None \/ v.val = ""
\* the test without its last operand
MissingInfoNoAuthor(f) == Falsy(f.image_url) \/ Falsy(f.body)
\* `not image_url or not quote or not author`
MissingInfo(f) == Falsy(f.image_url) \/ Falsy(f.body) \/ Falsy(f.author)

\* imgs and quotes of setup()
Imgs == {"dog1", "dog2"}
QuotePool == {[quote |-> "q1", author |-> "a1"], [quote |-> "q2", author |-> "a2"]}
\* tempfile.NamedTemporaryFile(delete=False, suffix=".jpg").name: a fresh name
TempName(t) == IF t = 1 THEN "tmp1" ELSE "tmp2"

\* image objects: the one Image.open returns and the one resize returns
Refs == Requests \X {"opened", "resized"}
NoRef == <<0, "none">>
NoImage == [src |-> "none", texts |-> {}, sized |-> "none"]
NoArg == [img_path |-> "none", text |-> "none", author |-> "none"]
NoLocal == [size |-> NoRef, resized |-> NoRef, drawing |-> NoRef, measured |-> NoRef]

WebInit ==
  /\ kind \in [Requests -> {"rand", "post"}]
  /\ form \in [Requests -> Forms]
  /\ \A t \in Requests : kind[t] = "rand" => form[t] = NoForm
  /\ pc = [t \in Requests |-> "start"]
  /\ resp = [t \in Requests |-> "none"]
  /\ fetched = [t \in Requests |-> FALSE]
  /\ status = [t \in Requests |-> 0]
  /\ valid = [t \in Requests |-> TRUE]
  /\ tmp = [t \in Requests |-> "none"]
  /\ arg = [t \in Requests |-> NoArg]
  /\ local = [t \in Requests |-> NoLocal]
  /\ image = NoRef
  /\ heap = [r \in Refs |-> NoImage]
  /\ tmpfiles = {}
  /\ static = {}

otherOfWeb == <<layoutVars, dispatchVars, callVars, cliVars>>
inputsOfWeb == <<kind, form>>

\* meme_rand: img = random.choice(imgs); quote = random.choice(quotes)
RandStart(t) ==
  /\ kind[t] = "rand" /\ pc[t] = "start"
  /\ \E img \in Imgs, q \in QuotePool :
       arg' = [arg EXCEPT ![t] = [img_path |-> img, text |-> q.quote, author |-> q.author]]
  /\ pc' = [pc EXCEPT ![t] = "mm_open"]
  /\ UNCHANGED <<resp, fetched, status, valid, tmp, local, image, heap, tmpfiles, static>>
  /\ UNCHANGED <<inputsOfWeb, otherOfWeb>>

\* meme_post: read the form; `return "Missing info.", 400`
PostStart(t) ==
  /\ kind[t] = "post" /\ pc[t] = "start"
  /\ IF MissingInfo(form[t])
     THEN /\ resp' = [resp EXCEPT ![t] = "400 Missing info."]
          /\ pc' = [pc EXCEPT ![t] = "done"]
     ELSE /\ pc' = [pc EXCEPT ![t] = "fetch"]
          /\ resp' = resp
  /\ UNCHANGED <<fetched, status, valid, tmp, arg, local, image, heap, tmpfiles, static>>
  /\ UNCHANGED <<inputsOfWeb, otherOfWeb>>

\* response = requests.get(image_url); `return "Error getting the image", 400`
PostFetch(t) ==
  /\ pc[t] = "fetch"
  /\ fetched' = [fetched EXCEPT ![t] = TRUE]
  /\ \E st \in {200, 404}, isImage \in BOOLEAN :
       /\ status' = [status EXCEPT ![t] = st]
       /\ valid' = [valid EXCEPT ![t] = isImage]
       /\ IF st # 200
          THEN /\ resp' = [resp EXCEPT ![t] = "400 Error getting the image"]
               /\ pc' = [pc EXCEPT ![t] = "done"]
          ELSE /\ pc' = [pc EXCEPT ![t] = "mktemp"]
               /\ resp' = resp
  /\ UNCHANGED <<tmp, arg, local, image, heap, tmpfiles, static>>
  /\ UNCHANGED <<inputsOfWeb, otherOfWeb>>

\* temp_file = tempfile.NamedTemporaryFile(delete=False, ...); temp_file.write(...)
\* and the call meme.make_meme(temp_file.name, quote, author)
PostTemp(t) ==
  /\ pc[t] = "mktemp"
  /\ tmp' = [tmp EXCEPT ![t] = TempName(t)]
  /\ tmpfiles' = tmpfiles \cup {TempName(t)}
  /\ arg' = [arg EXCEPT ![t] = [img_path |-> TempName(t), text |-> form[t].body.val,
                                author |-> form[t].author.val]]
  /\ pc' = [pc EXCEPT ![t] = "mm_open"]
  /\ UNCHANGED <<resp, fetched, status, valid, local, image, heap, static>>
  /\ UNCHANGED <<inputsOfWeb, otherOfWeb>>

\* load_and_resize_image: self.image = Image.open(img_path); an exception of
\* it leaves make_meme and the handler (the framework answers 500)
MemeOpen(t) ==
  /\ pc[t] = "mm_open"
  /\ IF valid[t]
     THEN /\ heap' = [heap EXCEPT ![<<t, "opened">>] =
                        [src |-> arg[t].img_path, texts |-> {}, sized |-> arg[t].img_path]]
          /\ image' = <<t, "opened">>
          /\ pc' = [pc EXCEPT ![t] = "mm_size"]
          /\ resp' = resp
     ELSE /\ resp' = [resp EXCEPT ![t] = "500"]
          /\ pc' = [pc EXCEPT ![t] = "done"]
          /\ UNCHANGED <<heap, image>>
  /\ UNCHANGED <<fetched, status, valid, tmp, arg, local, tmpfiles, static>>
  /\ UNCHANGED <<inputsOfWeb, otherOfWeb>>

\* original_width, original_height = self.image.size
MemeSize(t) ==
  /\ pc[t] = "mm_size"
  /\ local' = [local EXCEPT ![t].size = image]
  /\ pc' = [pc EXCEPT ![t] = "mm_resize"]
  /\ UNCHANGED <<resp, fetched, status, valid, tmp, arg, image, heap, tmpfiles, static>>
  /\ UNCHANGED <<inputsOfWeb, otherOfWeb>>

\* self.image.resize((width, new_height), ...): a new image made from self.image,
\* with the height computed from the size read before
MemeResize(t) ==
  /\ pc[t] = "mm_resize"
  /\ heap' = [heap EXCEPT ![<<t, "resized">>] =
                [src |-> heap[image].src, texts |-> {}, sized |-> heap[local[t].size].src]]
  /\ local' = [local EXCEPT ![t].resized = <<t, "resized">>]
  /\ pc' = [pc EXCEPT ![t] = "mm_assign"]
  /\ UNCHANGED <<resp, fetched, status, valid, tmp, arg, image, tmpfiles, static>>
  /\ UNCHANGED <<inputsOfWeb, otherOfWeb>>

\* self.image = <the resized image>; then prepare_fonts (it writes self.quote,
\* self.author and the fonts, which make_meme never reads back)
MemeAssign(t) ==
  /\ pc[t] = "mm_assign"
  /\ image' = local[t].resized
  /\ pc' = [pc EXCEPT ![t] = "mm_draw"]
  /\ UNCHANGED <<resp, fetched, status, valid, tmp, arg, local, heap, tmpfiles, static>>
  /\ UNCHANGED <<inputsOfWeb, otherOfWeb>>

\* drawing = ImageDraw.Draw(self.image)
MemeDrawing(t) ==
  /\ pc[t] = "mm_draw"
  /\ local' = [local EXCEPT ![t].drawing = image]
  /\ pc' = [pc EXCEPT ![t] = "mm_measure"]
  /\ UNCHANGED <<resp, fetched, status, valid, tmp, arg, image, heap, tmpfiles, static>>
  /\ UNCHANGED <<inputsOfWeb, otherOfWeb>>

\* img_width, img_height = self.image.size
MemeMeasure(t) ==
  /\ pc[t] = "mm_measure"
  /\ local' = [local EXCEPT ![t].measured = image]
  /\ pc' = [pc EXCEPT ![t] = "mm_text"]
  /\ UNCHANGED <<resp, fetched, status, valid, tmp, arg, image, heap, tmpfiles, static>>
  /\ UNCHANGED <<inputsOfWeb, otherOfWeb>>

\* drawing.text((x, y), text, ...)
MemeText(t) ==
  /\ pc[t] = "mm_text"
  /\ heap' = [heap EXCEPT ![local[t].drawing].texts = @ \cup {arg[t].text}]
  /\ pc' = [pc EXCEPT ![t] = "mm_author"]
  /\ UNCHANGED <<resp, fetched, status, valid, tmp, arg, local, image, tmpfiles, static>>
  /\ UNCHANGED <<inputsOfWeb, otherOfWeb>>

\* drawing.text((x, y + 5), f"- {author}", ...)
MemeAuthor(t) ==
  /\ pc[t] = "mm_author"
  /\ heap' = [heap EXCEPT ![local[t].drawing].texts = @ \cup {arg[t].author}]
  /\ pc' = [pc EXCEPT ![t] = "mm_save"]
  /\ UNCHANGED <<resp, fetched, status, valid, tmp, arg, local, image, tmpfiles, static>>
  /\ UNCHANGED <<inputsOfWeb, otherOfWeb>>

\* self.image.save(output_path_complete); return the path
MemeSaveShared(t) ==
  /\ pc[t] = "mm_save"
  /\ static' = static \cup {[by |-> t, src |-> heap[image].src, texts |-> heap[image].texts,
                            sized |-> heap[image].sized,
                            measured |-> heap[local[t].measured].src]}
  /\ pc' = [pc EXCEPT ![t] = IF kind[t] = "post" THEN "cleanup" ELSE "render"]
  /\ UNCHANGED <<resp, fetched, status, valid, tmp, arg, local, image, heap, tmpfiles>>
  /\ UNCHANGED <<inputsOfWeb, otherOfWeb>>

\* temp_file.close(); os.remove(temp_file.name)
PostCleanup(t) ==
  /\ pc[t] = "cleanup"
  /\ tmpfiles' = tmpfiles \ {tmp[t]}
  /\ pc' = [pc EXCEPT ![t] = "render"]
  /\ UNCHANGED <<resp, fetched, status, valid, tmp, arg, local, image, heap, static>>
  /\ UNCHANGED <<inputsOfWeb, otherOfWeb>>

\* return render_template('meme.html', path=path)
Render(t) ==
  /\ pc[t] = "render"
  /\ resp' = [resp EXCEPT ![t] = "200"]
  /\ pc' = [pc EXCEPT ![t] = "done"]
  /\ UNCHANGED <<fetched, status, valid, tmp, arg, local, image, heap, tmpfiles, static>>
  /\ UNCHANGED <<inputsOfWeb, otherOfWeb>>

Next ==
  \E t \in Requests :
    \/ RandStart(t) \/ PostStart(t) \/ PostFetch(t) \/ PostTemp(t)
    \/ MemeOpen(t) \/ MemeSize(t) \/ MemeResize(t) \/ MemeAssign(t)
    \/ MemeDrawing(t) \/ MemeMeasure(t) \/ MemeText(t) \/ MemeAuthor(t)
    \/ MemeSaveShared(t) \/ PostCleanup(t) \/ Render(t)

WebIdle ==
  /\ kind = [t \in Requests |-> "none"] /\ form = [t \in Requests |-> NoForm]
  /\ pc = [t \in Requests |-> "idle"] /\ resp = [t \in Requests |-> "none"]
  /\ fetched = [t \in Requests |-> FALSE] /\ status = [t \in Requests |-> 0]
  /\ valid = [t \in Requests |-> TRUE] /\ tmp = [t \in Requests |-> "none"]
  /\ arg = [t \in Requests |-> NoArg] /\ local = [t \in Requests |-> NoLocal]
  /\ image = NoRef /\ heap = [r \in Refs |-> NoImage]
  /\ tmpfiles = {} /\ static = {}

(***************************************************************************)
(* Specifications                                                          *)
(***************************************************************************)
InitOfLayout ==
  /\ WebIdle /\ LayoutInit /\ DispatchIdle /\ CallIdle /\ CliIdle
InitOfDispatch ==
  /\ WebIdle /\ LayoutIdle /\ DispatchInit /\ CallIdle /\ CliIdle
InitOfCall ==
  /\ WebIdle /\ LayoutIdle /\ DispatchIdle /\ CallInit /\ CliIdle
InitOfCli ==
  /\ WebIdle /\ LayoutIdle /\ DispatchIdle /\ CallIdle /\ CliInit

Init ==
  /\ LayoutIdle /\ DispatchIdle /\ CallIdle /\ CliIdle /\ WebInit

\* the web application: two requests on the shared generator
Spec == Init /\ [][Next]_vars
\* make_meme's resize and placement
SpecLayout == InitOfLayout /\ [][LayoutNext]_vars
\* Ingestor.parse
SpecDispatch == InitOfDispatch /\ [][DispatchNext]_vars
\* one call of an ingestor's parse or of make_meme
SpecCall == InitOfCall /\ [][CallNext]_vars
\* one run of the command line's generate_meme
SpecCli == InitOfCli /\ [][CliNext]_vars


\* C1: after the text is drawn, both text blocks lie inside the image:
\* x >= 0, x + max(text_width, author_width) <= img_width, the quote block
\* (bottom at y, 30 px high) starts at row >= 0 and the author block (top at
\* y + 5, 24 px high) ends at row <= img_height.
C1_NoClipping ==
  lpc = "drawn" =>
    /\ x >= 0
    /\ x + Max(text_width, author_width) <= img_width
    /\ y - font_size >= 0
    /\ y + 5 + author_font_size <= img_height


\* C2: whenever make_meme returns a path, the image was saved at exactly the
\* place the returned path names, so the file exists there.
C2_SavedAtReturnedPath ==
  (call = "make_meme" /\ outcome = "returned") =>
    /\ Locate(retpath) = tmp_path
    /\ Locate(retpath) \in files

\* the text after the last '.' of a path that has one
HasDot(p) == \E i \in 1..Len(p) : p[i] = "."
LastDot(p) == CHOOSE i \in 1..Len(p) : p[i] = "." /\ \A j \in (i + 1)..Len(p) : p[j] # "."
AfterLastDot(p) == SubSeq(p, LastDot(p) + 1, Len(p))
\* the format ingestors whose allowed_extensions holds the text after the last '.'
IngestorsFor(p) ==
  IF HasDot(p)
  THEN {cls \in FormatIngestors : AfterLastDot(p) \in allowed_extensions(cls)}
  ELSE {}

\* C3: Ingestor.parse invokes exactly the format ingestor whose
\* allowed_extensions holds the text after the last '.' of the path, and that
\* ingestor's can_ingest accepts the path; for every other path it raises
\* 'No suitable ingestor found' and invokes no format ingestor.
C3_DispatchByExtension ==
  dpc = "done" =>
    IF IngestorsFor(dpath) # {}
    THEN dinvoked = IngestorsFor(dpath) /\ Cardinality(dinvoked) = 1 /\ dout = "ingesting"
    ELSE dinvoked = {} /\ dout = "No suitable ingestor found"

\* no unwanted character, no leading or trailing whitespace
IsClean(s) ==
  /\ \A i \in 1..Len(s) : s[i] \notin unwanted_chars
  /\ s # <<>> => (s[1] \notin Whitespace /\ s[Len(s)] \notin Whitespace)

\* C4: every quote record a format ingestor returns has a cleaned quote and a
\* cleaned author: no unwanted character, no leading or trailing whitespace.
C4_RecordsCleaned ==
  (call \in FormatIngestors /\ outcome = "returned") =>
    \A i \in 1..Len(quotes) : IsClean(quotes[i].quote) /\ IsClean(quotes[i].author)

\* C5 as stated: a call in which any step failed never returns normally.
C5_NeverRecovered ==
  (cpc = "done" /\ failures # {}) => outcome = "raised"

\* C5 as amended: a call in which a step failed ends with an exception, except
\* that IngestorPDF.parse skips a line whose processing fails and goes on.
C5_OnlyPdfLinesRecovered ==
  /\ (cpc = "done" /\ failures \ {"pdf_line"} # {}) => outcome = "raised"
  /\ outcome = "returned" => failures \subseteq {"pdf_line"}
  /\ "pdf_line" \in failures => call = "IngestorPDF"

\* a PDF parse that skipped a failing line and still returned a record
C5_Witness ==
  /\ call = "IngestorPDF" /\ outcome = "returned"
  /\ "pdf_line" \in failures /\ Len(quotes) > 0

\* C6: when a path is given, the image handed to make_meme is that path; a
\* random image is chosen only when path is None.
C6_GivenPathIsUsed ==
  gpc \in {"make", "done"} /\ gimg # <<>> =>
    /\ gpath # None => gimg = gpath.val
    /\ gpicked => gpath = None

\* a form value that is missing or empty
FieldMissing(v) == v = None \/ v = Some("")
AnyFieldMissing(f) ==
  FieldMissing(f.image_url) \/ FieldMissing(f.body) \/ FieldMissing(f.author)
\* request t made no temporary file, did not call make_meme and wrote no meme
NoMeme(t) ==
  /\ tmp[t] = "none" /\ TempName(t) \notin tmpfiles
  /\ arg[t] = NoArg
  /\ \A f \in static : f.by # t

\* C7: a meme_post with a missing or empty field answers 400 'Missing info.'
\* without fetching; one whose fetch returns a status other than 200 answers
\* 400 'Error getting the image'; in both cases there is no temporary file,
\* no make_meme call and no meme file.
C7_RejectedPostsWriteNothing ==
  \A t \in Requests :
    kind[t] = "post" =>
      /\ AnyFieldMissing(form[t]) =>
           /\ ~fetched[t] /\ NoMeme(t)
           /\ pc[t] \in {"start", "done"}
           /\ pc[t] = "done" => resp[t] = "400 Missing info."
      /\ (fetched[t] /\ status[t] # 200) =>
           /\ NoMeme(t)
           /\ pc[t] = "done" /\ resp[t] = "400 Error getting the image"

\* both rejections have happened: one request lacked a field, the other's
\* fetch failed
C7_Witness ==
  \E t1, t2 \in Requests :
    /\ pc[t1] = "done" /\ resp[t1] = "400 Missing info."
    /\ pc[t2] = "done" /\ resp[t2] = "400 Error getting the image"

\* C8: every saved meme was loaded from its own request's img_path, sized and
\* measured on it, and carries exactly that request's quote and author.
C8_RequestsIsolated ==
  \A f \in static :
    /\ f.src = arg[f.by].img_path
    /\ f.sized = arg[f.by].img_path
    /\ f.measured = arg[f.by].img_path
    /\ f.texts = {arg[f.by].text, arg[f.by].author}

\* C9: when a meme_post handler has finished, the temporary file it created
\* is gone, also when make_meme raised.
C9_TempFileRemoved ==
  \A t \in Requests : pc[t] = "done" => tmp[t] \notin tmpfiles

=============================================================================
